---- MODULE Spec2Model ----
(***************************************************************************)
(* Model of trainvae.py: the VAE training script.  One behaviour is a      *)
(* sequence of invocations of the script against the same log directory:   *)
(* start-up (argument parsing, model construction, directory creation,     *)
(* optional reload of best.tar), then the epoch loop (train, test,         *)
(* checkpoint, sample).  Tensors are abstracted: a parameter state is the  *)
(* number of optimizer steps applied on top of the seeded initial state,   *)
(* a loss is a natural number.                                             *)
(***************************************************************************)
EXTENDS Integers, Sequences, FiniteSets, TLC

\* ---- bounds of the model ------------------------------------------------
MaxRuns == 2            \* invocations of the script on one log directory
MaxEpochs == 2          \* largest value of --epochs
NumTrainBatches == 2    \* len(train_loader)
NumTestBatches == 2     \* len(test_loader); one observation per batch
MaxBatchLoss == 1       \* per-observation validation loss ranges over 0..MaxBatchLoss

\* ---- abstract values ----------------------------------------------------
\* VAE().to(device) after torch.manual_seed(123): the same parameters in every run.
FreshModel == 0
\* optim.Adam(model.parameters()) before any step.
FreshOpt == 0
\* Python's None, an unbound name, or a file that does not exist.
None == <<>>

\* len(test_loader.dataset)
LenTestDataset == NumTestBatches

\* The values loss_function(...).item() takes on one validation batch: a sum
\* of squared errors and a KL term, both non-negative.  They are multiples of
\* the dataset length so that the final division is exact in the integers.
BatchLosses == {k * LenTestDataset : k \in 0..MaxBatchLoss}

VARIABLES
    pc,          \* position of the script
    run,         \* number of invocations started so far
    args,        \* parsed command line: [epochs, noreload]
    vaeExists,   \* {logdir}/vae exists
    samplesExists, \* {logdir}/vae/samples exists
    bestFile,    \* content of {logdir}/vae/best.tar, None if absent
    ckptFile,    \* content of {logdir}/vae/checkpoint.tar, None if absent
    samples,     \* epochs e for which samples/sample_e.png exists
    model,       \* model.state_dict()
    optimizer,   \* optimizer.state_dict()
    training,    \* model.training
    state,       \* <<the checkpoint read by torch.load>>, None if not read
    cur_best,    \* None or <<loss>>
    epoch,       \* loop variable of the epoch loop, 0 before the first epoch
    batch_idx,   \* position in the loader being iterated
    acc,         \* test()'s local accumulator test_loss
    test_loss,   \* the main script's test_loss
    is_best,     \* the main script's is_best
    \* history variables, read by the properties only
    atLaunch,    \* files as they were when the current run was launched
    lossHist,    \* losses returned by test() in the current run, by epoch
    afterTrain,  \* <<model, optimizer>> at the end of the last TRAIN phase
    lastEval,    \* <<model, optimizer, loss>> of the last completed test()
    ckptWrites   \* writes of checkpoint.tar in the current run

vars == <<pc, run, args, vaeExists, samplesExists, bestFile, ckptFile, samples,
          model, optimizer, training, state, cur_best, epoch, batch_idx, acc,
          test_loss, is_best, atLaunch, lossHist, afterTrain, lastEval,
          ckptWrites>>

fsVars == <<vaeExists, samplesExists, bestFile, ckptFile, samples>>
netVars == <<model, optimizer, training>>
histVars == <<atLaunch, lossHist, afterTrain, lastEval, ckptWrites>>

\* ---- helpers -------------------------------------------------------------
Exists(file) == file # None

Min(s) == CHOOSE x \in s : \A y \in s : x <= y

Range(seq) == {seq[i] : i \in DOMAIN seq}

\* optimizer.step(): the parameters move to a new value.
StepModel(m) == m + 1

\* optimizer.step(): Adam's step count and moments move to a new value.
StepOptimizer(o) == o + 1

\* not args.noreload and exists(reload_file)
ReloadCondNoFlag(noreload, fileExists) == fileExists
ReloadCond(noreload, fileExists) == ~noreload /\ fileExists

\* not cur_best or test_loss < cur_best, with Python's truthiness: None and
\* 0.0 are both false.
IsBest(cur, loss) == cur = None \/ cur[1] = 0 \/ loss < cur[1]

\* The value of cur_best after an iteration of the loop body: the body has
\* no assignment to cur_best.
CurBestTracked(cur, best, loss) == IF best THEN <<loss>> ELSE cur
CurBestAfterEpoch(cur, best, loss) == cur

\* range(1, args.epochs + 1) has a next element after e.
HasNextEpochInclusive(e, epochs) == e < epochs + 1
HasNextEpoch(e, epochs) == e < epochs

\* The dict passed to save_checkpoint.
CheckpointInitialWeights(e, m, loss, o) ==
    [epoch |-> e, state_dict |-> FreshModel, precision |-> loss, optimizer |-> o]
CheckpointZeroBasedEpoch(e, m, loss, o) ==
    [epoch |-> e - 1, state_dict |-> m, precision |-> loss, optimizer |-> o]
CheckpointState(e, m, loss, o) ==
    [epoch |-> e, state_dict |-> m, precision |-> loss, optimizer |-> o]

\* utils.save_checkpoint(state, is_best, filename, best_filename): saves
\* state in filename, and in best_filename too if is_best.
SavedCheckpoint(st, old) == <<st>>
SavedBest(st, best, old) == IF best THEN <<st>> ELSE old

\* test_loss /= len(test_loader.dataset)
AverageLoss(sum) == sum \div LenTestDataset

\* ---- initial state -------------------------------------------------------
\* The log directory exists; vae/ may be absent, present with samples/, or
\* present without samples/.  No file has been written yet.
Init ==
    /\ pc = "idle"
    /\ run = 0
    /\ args = [epochs |-> 0, noreload |-> FALSE]
    /\ vaeExists \in BOOLEAN
    /\ samplesExists \in BOOLEAN
    /\ samplesExists => vaeExists
    /\ bestFile = None
    /\ ckptFile = None
    /\ samples = {}
    /\ model = FreshModel
    /\ optimizer = FreshOpt
    /\ training = TRUE
    /\ state = None
    /\ cur_best = None
    /\ epoch = 0
    /\ batch_idx = 0
    /\ acc = 0
    /\ test_loss = 0
    /\ is_best = FALSE
    /\ atLaunch = [best |-> None, ckpt |-> None, samples |-> {}]
    /\ lossHist = <<>>
    /\ afterTrain = <<FreshModel, FreshOpt>>
    /\ lastEval = <<FreshModel, FreshOpt, 0>>
    /\ ckptWrites = 0

\* ---- start-up --------------------------------------------------------------
\* The script is invoked: arguments are parsed, the model and the optimizer
\* are constructed.  A new invocation is possible once the previous process
\* has ended, normally or by an uncaught exception.
Launch ==
    /\ pc \in {"idle", "done", "crashed"}
    /\ run < MaxRuns
    /\ run' = run + 1
    /\ \E e \in 0..MaxEpochs, nr \in BOOLEAN :
          args' = [epochs |-> e, noreload |-> nr]
    /\ model' = FreshModel
    /\ optimizer' = FreshOpt
    /\ training' = TRUE
    /\ state' = None
    /\ cur_best' = None
    /\ epoch' = 0
    /\ batch_idx' = 0
    /\ acc' = 0
    /\ test_loss' = 0
    /\ is_best' = FALSE
    /\ atLaunch' = [best |-> bestFile, ckpt |-> ckptFile, samples |-> samples]
    /\ lossHist' = <<>>
    /\ ckptWrites' = 0
    /\ pc' = "mkdirs"
    /\ UNCHANGED <<fsVars, afterTrain, lastEval>>

\* if not exists(vae_dir): mkdir(vae_dir); mkdir(join(vae_dir, 'samples'))
MakeDirs ==
    /\ pc = "mkdirs"
    /\ IF ~vaeExists
          THEN vaeExists' = TRUE /\ samplesExists' = TRUE
          ELSE UNCHANGED <<vaeExists, samplesExists>>
    /\ pc' = "reload"
    /\ UNCHANGED <<run, args, bestFile, ckptFile, samples, netVars, state,
                   cur_best, epoch, batch_idx, acc, test_loss, is_best, histVars>>

\* The reload block.
Reload ==
    /\ pc = "reload"
    /\ IF ReloadCond(args.noreload, Exists(bestFile))
          THEN /\ state' = bestFile
               /\ model' = bestFile[1].state_dict
               /\ optimizer' = bestFile[1].optimizer
          ELSE UNCHANGED <<state, model, optimizer>>
    /\ pc' = "init_best"
    /\ UNCHANGED <<run, args, fsVars, training, cur_best, epoch, batch_idx, acc,
                   test_loss, is_best, histVars>>

\* cur_best = None
InitBest ==
    /\ pc = "init_best"
    /\ cur_best' = None
    /\ pc' = "for"
    /\ UNCHANGED <<run, args, fsVars, netVars, state, epoch, batch_idx, acc,
                   test_loss, is_best, histVars>>

\* ---- the epoch loop --------------------------------------------------------
\* for epoch in range(1, args.epochs + 1)
ForNext ==
    /\ pc = "for"
    /\ IF HasNextEpoch(epoch, args.epochs)
          THEN epoch' = epoch + 1 /\ pc' = "train"
          ELSE UNCHANGED epoch /\ pc' = "done"
    /\ UNCHANGED <<run, args, fsVars, netVars, state, cur_best, batch_idx, acc,
                   test_loss, is_best, histVars>>

\* train(epoch): model.train(); dataset_train.load_buffer(); train_loss = 0
TrainBegin ==
    /\ pc = "train"
    /\ training' = TRUE
    /\ batch_idx' = 0
    /\ pc' = "train_batch"
    /\ UNCHANGED <<run, args, fsVars, model, optimizer, state, cur_best, epoch,
                   acc, test_loss, is_best, histVars>>

\* One iteration of the loop over train_loader: forward, backward, step.
TrainBatch ==
    /\ pc = "train_batch"
    /\ batch_idx < NumTrainBatches
    /\ model' = StepModel(model)
    /\ optimizer' = StepOptimizer(optimizer)
    /\ batch_idx' = batch_idx + 1
    /\ UNCHANGED <<pc, run, args, fsVars, training, state, cur_best, epoch, acc,
                   test_loss, is_best, histVars>>

\* train_loader is exhausted; train returns.
TrainEnd ==
    /\ pc = "train_batch"
    /\ batch_idx = NumTrainBatches
    /\ afterTrain' = <<model, optimizer>>
    /\ pc' = "test"
    /\ UNCHANGED <<run, args, fsVars, netVars, state, cur_best, epoch, batch_idx,
                   acc, test_loss, is_best, atLaunch, lossHist, lastEval,
                   ckptWrites>>

\* test(): model.eval(); dataset_test.load_buffer(); test_loss = 0
TestBegin ==
    /\ pc = "test"
    /\ training' = FALSE
    /\ acc' = 0
    /\ batch_idx' = 0
    /\ pc' = "test_batch"
    /\ UNCHANGED <<run, args, fsVars, model, optimizer, state, cur_best, epoch,
                   test_loss, is_best, histVars>>

\* One iteration of the loop over test_loader, under torch.no_grad().
TestBatchStepping ==
    /\ pc = "test_batch"
    /\ batch_idx < NumTestBatches
    /\ \E l \in BatchLosses : acc' = acc + l
    /\ batch_idx' = batch_idx + 1
    /\ model' = StepModel(model)
    /\ optimizer' = StepOptimizer(optimizer)
    /\ UNCHANGED <<pc, run, args, fsVars, training, state, cur_best, epoch,
                   test_loss, is_best, histVars>>
TestBatch ==
    /\ pc = "test_batch"
    /\ batch_idx < NumTestBatches
    /\ \E l \in BatchLosses : acc' = acc + l
    /\ batch_idx' = batch_idx + 1
    /\ UNCHANGED <<pc, run, args, fsVars, netVars, state, cur_best, epoch,
                   test_loss, is_best, histVars>>

\* test_loader is exhausted: the sum is averaged and returned to the main
\* script, which binds it to test_loss.
TestEnd ==
    /\ pc = "test_batch"
    /\ batch_idx = NumTestBatches
    /\ test_loss' = AverageLoss(acc)
    /\ acc' = AverageLoss(acc)
    /\ lossHist' = Append(lossHist, AverageLoss(acc))
    /\ lastEval' = <<model, optimizer, AverageLoss(acc)>>
    /\ pc' = "ckpt"
    /\ UNCHANGED <<run, args, fsVars, netVars, state, cur_best, epoch, batch_idx,
                   is_best, atLaunch, afterTrain, ckptWrites>>

\* The checkpointing block: is_best, then save_checkpoint.
Checkpoint ==
    /\ pc = "ckpt"
    /\ is_best' = IsBest(cur_best, test_loss)
    /\ ckptFile' = SavedCheckpoint(
                      CheckpointState(epoch, model, test_loss, optimizer), ckptFile)
    /\ bestFile' = SavedBest(
                      CheckpointState(epoch, model, test_loss, optimizer),
                      IsBest(cur_best, test_loss), bestFile)
    /\ cur_best' = CurBestAfterEpoch(cur_best, IsBest(cur_best, test_loss), test_loss)
    /\ ckptWrites' = ckptWrites + 1
    /\ pc' = "sample"
    /\ UNCHANGED <<run, args, vaeExists, samplesExists, samples, netVars, state,
                   epoch, batch_idx, acc, test_loss, atLaunch, lossHist,
                   afterTrain, lastEval>>

\* The sample block: decode random latent vectors and save the image under
\* samples/.  save_image opens the file for writing: without the directory
\* it raises, and nothing catches the exception.
Sample ==
    /\ pc = "sample"
    /\ IF samplesExists
          THEN samples' = samples \cup {epoch} /\ pc' = "for"
          ELSE UNCHANGED samples /\ pc' = "crashed"
    /\ UNCHANGED <<run, args, vaeExists, samplesExists, bestFile, ckptFile,
                   netVars, state, cur_best, epoch, batch_idx, acc, test_loss,
                   is_best, histVars>>

\* One step of a running process.
Step ==
    \/ MakeDirs
    \/ Reload
    \/ InitBest
    \/ ForNext
    \/ TrainBegin
    \/ TrainBatch
    \/ TrainEnd
    \/ TestBegin
    \/ TestBatch
    \/ TestEnd
    \/ Checkpoint
    \/ Sample

Next == Launch \/ Step

Spec == Init /\ [][Next]_vars

\* The interpreter runs a launched script until it ends.
FairSpec == Spec /\ WF_vars(Step)

\* ---- properties ------------------------------------------------------------
TypeOK ==
    /\ pc \in {"idle", "mkdirs", "reload", "init_best", "for", "train",
               "train_batch", "test", "test_batch", "ckpt", "sample", "done",
               "crashed"}
    /\ run \in 0..MaxRuns
    /\ args.epochs \in 0..MaxEpochs /\ args.noreload \in BOOLEAN
    /\ epoch \in 0..MaxEpochs
    /\ Len(bestFile) <= 1 /\ Len(ckptFile) <= 1 /\ Len(state) <= 1
    /\ Len(cur_best) <= 1
    /\ samplesExists => vaeExists

\* Epoch `epoch` of the current run has completed: the loop is back at its
\* head, or has ended normally.
EpochCompleted == pc \in {"for", "done"} /\ epoch >= 1

\* The start-up of the current run is over and the process has not ended.
InLoop == pc \in {"for", "train", "train_batch", "test", "test_batch", "ckpt",
                  "sample"}

\* C1: after every completed epoch k the precision recorded in best.tar is
\* the minimum of the test losses returned by test() in epochs 1..k.
C1_BestIsMinimum ==
    EpochCompleted =>
        /\ Exists(bestFile)
        /\ bestFile[1].precision = Min(Range(lossHist))

\* C2: the precision recorded in best.tar never increases from one completed
\* epoch to the next: the checkpoint write of epoch k+1 leaves a value that is
\* at most the one epoch k left.
C2_BestNonIncreasing ==
    [][(pc = "ckpt" /\ epoch >= 2)
          => bestFile'[1].precision <= bestFile[1].precision]_vars

\* C3: in a run with epochs = 0 the loop body is never entered, no checkpoint
\* and no sample is written, and best.tar is as it was before the run.
C3_ZeroEpochs ==
    (run >= 1 /\ args.epochs = 0) =>
        /\ pc \in {"mkdirs", "reload", "init_best", "for", "done"}
        /\ epoch = 0
        /\ ckptWrites = 0
        /\ bestFile = atLaunch.best
        /\ ckptFile = atLaunch.ckpt
        /\ samples = atLaunch.samples

C3_Witness == pc = "done" /\ args.epochs = 0 /\ Exists(bestFile)

\* C4: after epoch k completes, checkpoint.tar has been written k times in
\* the run and holds epoch k, the loss test() returned in epoch k, and the
\* model and optimizer state left by epoch k's TRAIN phase, whether or not the
\* loss is a new best.
C4_RollingCheckpoint ==
    EpochCompleted =>
        /\ ckptWrites = epoch
        /\ ckptFile = <<[epoch |-> epoch,
                         state_dict |-> afterTrain[1],
                         precision |-> lossHist[epoch],
                         optimizer |-> afterTrain[2]]>>

C4_Witness ==
    /\ EpochCompleted
    /\ epoch = 2
    /\ lossHist[2] > lossHist[1]
    /\ ckptFile[1].state_dict = afterTrain[1]

\* The phases of one epoch follow each other in the order TRAIN, TEST,
\* checkpoint, sample, each loader being iterated to its end.
C5_PhaseOrder ==
    /\ pc = "for" => pc' \in {"train", "done"} /\ epoch' \in {epoch, epoch + 1}
    /\ pc = "train" => pc' = "train_batch"
    /\ pc = "train_batch" =>
          \/ pc' = "train_batch" /\ batch_idx' = batch_idx + 1
          \/ pc' = "test" /\ batch_idx = NumTrainBatches
    /\ pc = "test" => pc' = "test_batch"
    /\ pc = "test_batch" =>
          \/ pc' = "test_batch" /\ batch_idx' = batch_idx + 1
          \/ pc' = "ckpt" /\ batch_idx = NumTestBatches
    /\ pc = "ckpt" => pc' = "sample" /\ ckptFile'[1].epoch = epoch
    /\ pc = "sample" => pc' = "for" /\ epoch \in samples'
    /\ pc \in {"train", "train_batch", "test", "test_batch", "ckpt", "sample"}
          => epoch' = epoch

\* C5: every epoch runs TRAIN, TEST, the checkpoint write and the sample
\* write in this order; epochs are numbered 1..epochs; a launched run reaches
\* its terminal state after exactly `epochs` epochs and never starts another.
C5_EpochLoop ==
    /\ [][C5_PhaseOrder]_vars
    /\ [](InLoop => epoch \in 0..args.epochs)
    /\ [](pc = "done" => epoch = args.epochs)
    /\ [](pc = "mkdirs" => <>(pc = "done" /\ epoch = args.epochs))

\* C6: right after the reload block the model and the optimizer hold the
\* state stored in best.tar exactly when --noreload is not set and best.tar
\* exists; otherwise they hold their freshly initialised state.
C6_ReloadIff ==
    pc = "init_best" =>
        IF ~args.noreload /\ Exists(bestFile)
           THEN /\ state = bestFile
                /\ model = bestFile[1].state_dict
                /\ optimizer = bestFile[1].optimizer
                /\ model # FreshModel
           ELSE /\ state = None
                /\ model = FreshModel
                /\ optimizer = FreshOpt

C6_Witness ==
    /\ pc = "init_best"
    /\ args.noreload
    /\ Exists(bestFile)
    /\ model = FreshModel

\* C7: once start-up has created the directories, vae/ and vae/samples/ both
\* exist, so that no write of the epoch loop fails.
C7_DirectoriesExist ==
    /\ (pc \in {"reload", "init_best"} \/ InLoop) => vaeExists /\ samplesExists
    /\ pc # "crashed"

C9_OnlyTrainMutates ==
    (model' # model \/ optimizer' # optimizer)
        => (pc \in {"train_batch", "reload"} \/ pc' = "mkdirs")

\* C9: the TEST phase, the checkpoint write and the sample write leave the
\* model and optimizer state unchanged, so the state saved in an epoch's
\* checkpoint is the state test() evaluated in that epoch.
C9_Frame ==
    /\ [][C9_OnlyTrainMutates]_vars
    /\ [](pc \in {"sample", "for", "done"} /\ epoch >= 1 =>
             /\ ckptFile[1].state_dict = lastEval[1]
             /\ ckptFile[1].optimizer = lastEval[2]
             /\ ckptFile[1].precision = lastEval[3]
             /\ model = lastEval[1]
             /\ optimizer = lastEval[2])

C9_Witness ==
    /\ pc = "for"
    /\ epoch = 2
    /\ ~training
    /\ model = afterTrain[1]
    /\ ckptFile[1].state_dict = model

\* C10: cur_best is None throughout the epoch loop, is_best is true in every
\* epoch, and after every completed epoch best.tar equals checkpoint.tar.
C10_AlwaysBest ==
    /\ (InLoop \/ pc = "done") => cur_best = None
    /\ pc = "sample" => is_best
    /\ EpochCompleted => Exists(bestFile) /\ bestFile = ckptFile

C10_Witness ==
    /\ EpochCompleted
    /\ epoch = 1
    /\ state # None
    /\ bestFile = ckptFile
    /\ bestFile[1].precision > state[1].precision

====
